---- MODULE Spec2Model ----
(***************************************************************************)
(* The slurmd interface of the slurmctld charm                             *)
(* (src/charm-slurmctld/src/interface_slurmd.py).                          *)
(*                                                                         *)
(* Two specifications share the variables:                                 *)
(*   Spec     the relation handlers (_on_relation_created / _changed /     *)
(*            _broken) driven by the host's hook dispatch and deferral;    *)
(*   SpecAgg  the inventory aggregation (get_slurmd_info and               *)
(*            ensure_unique_partitions) over relation data drawn from      *)
(*            bounded sets.                                                *)
(***************************************************************************)
EXTENDS Integers, Sequences, FiniteSets, TLC

VARIABLES
    installed,          \* self._charm.is_slurm_installed()
    slurmdbd_info,      \* self._charm.slurmdbd_info
    munge_key,          \* self._charm.get_munge_key()
    is_leader,          \* self.framework.model.unit.is_leader()
    slurmd_available,   \* the flag behind self._charm.set_slurmd_available()
    app_data,           \* relation.data[self.model.app], per relation
    peer_data,          \* relation.data[relation.app], per relation
    unit_data,          \* relation.data[unit], per relation and peer unit
    phase,              \* the host's view of each relation's lifecycle
    deferred,           \* events whose handler called event.defer()
    pending,            \* events the running hook still has to emit
    last,               \* what the last handler run did
    partitions,         \* get_slurmd_info: the list before deduplication
    result              \* get_slurmd_info: the value returned

vars == <<installed, slurmdbd_info, munge_key, is_leader, slurmd_available,
          app_data, peer_data, unit_data, phase, deferred, pending, last,
          partitions, result>>

handshakeVars == <<installed, slurmdbd_info, munge_key, is_leader,
                   slurmd_available, app_data, phase, deferred, pending, last>>

aggVars == <<unit_data, partitions, result>>

(***************************************************************************)
(* Bounds and value universes                                              *)
(***************************************************************************)
MaxDeferred == 2        \* events the host keeps deferred at one time
MaxPublished == 3       \* peer units that have published an inventory

Relations == {1, 2}     \* relation ids, enumerated by the host in id order
\* the peer units of each relation's application
Units(r) ==
    IF r = 1 THEN {"compute/0", "compute/1", "compute/2"}
    ELSE {"gpu/0", "gpu/1"}
MungeKeys == {"mk1", "mk2"}
hostname == "slurmctld-0"       \* self._charm.hostname
port == "6817"                  \* self._charm.port

None == "None"                  \* Python's None / a key that is not set

(***************************************************************************)
(* Python dictionaries as functions from the keys that are set             *)
(***************************************************************************)
EmptyDict == [k \in {} |-> None]

\* d[k] = v
SetItem(d, k, v) == [x \in (DOMAIN d) \cup {k} |-> IF x = k THEN v ELSE d[x]]

\* d.get(k)
Get(d, k) == IF k \in DOMAIN d THEN d[k] ELSE None

\* truth value of a str-or-None
Truthy(v) == v /= None /\ v /= ""

(***************************************************************************)
(* json: the payloads the peers publish, and json.loads on them            *)
(***************************************************************************)
Nodes ==
    { [node_name |-> "n1", state |-> "idle"],
      [node_name |-> "n1", state |-> "down"],
      [node_name |-> "n2", state |-> "idle"] }

PartitionInfos ==
    { [partition_name |-> "compute", partition_state |-> "UP"],
      [partition_name |-> "gpu", partition_state |-> "UP"] }

\* the text a peer unit publishes under "inventory"
NodeText(n) ==
    "{\"node_name\": \"" \o n.node_name \o "\", \"state\": \"" \o n.state \o "\"}"

\* the text a peer application publishes under "partition_info"
PartitionText(p) ==
    "{\"partition_name\": \"" \o p.partition_name
        \o "\", \"partition_state\": \"" \o p.partition_state \o "\"}"

InventoryTexts == {NodeText(n) : n \in Nodes}
PartitionTexts == {PartitionText(p) : p \in PartitionInfos}

\* json.loads raises on any text that is not a document
Parses(s) == s \in InventoryTexts \cup PartitionTexts

json_loads(s) ==
    IF s \in InventoryTexts
    THEN CHOOSE n \in Nodes : NodeText(n) = s
    ELSE CHOOSE p \in PartitionInfos : PartitionText(p) = s

(***************************************************************************)
(* Events and the record of a handler run                                  *)
(***************************************************************************)
Event(kind, r) == [kind |-> kind, relation |-> r]

NoHandler ==
    [handler |-> "none", kind |-> "none", relation |-> 0, leader |-> FALSE,
     deferred |-> FALSE, emitted |-> <<>>, written |-> <<>>]

Ran(handler, event, isDeferred, emitted, written) ==
    [handler |-> handler, kind |-> event.kind, relation |-> event.relation,
     leader |-> is_leader, deferred |-> isDeferred, emitted |-> emitted,
     written |-> written]

\* Variant of _on_relation_created without the slurmdbd_info check.
OnRelationCreated_NoSlurmdbdCheck(event) ==
    LET r == event.relation IN
    IF ~installed
    THEN /\ deferred' = Append(deferred, event)
         /\ last' = Ran("_on_relation_created", event, TRUE, <<>>, <<>>)
         /\ UNCHANGED <<app_data, slurmd_available>>
    ELSE /\ app_data' = [app_data EXCEPT ![r] =
                SetItem(SetItem(SetItem(@, "munge_key", munge_key),
                                "slurmctld_host", hostname),
                        "slurmctld_port", port)]
         /\ last' = Ran("_on_relation_created", event, FALSE, <<>>,
                        << <<"munge_key", munge_key>>,
                           <<"slurmctld_host", hostname>>,
                           <<"slurmctld_port", port>> >>)
         /\ UNCHANGED <<deferred, slurmd_available>>

\* Variant of _on_relation_created that does not send the port.
OnRelationCreated_NoPort(event) ==
    LET r == event.relation IN
    IF ~installed \/ ~Truthy(slurmdbd_info)
    THEN /\ deferred' = Append(deferred, event)
         /\ last' = Ran("_on_relation_created", event, TRUE, <<>>, <<>>)
         /\ UNCHANGED <<app_data, slurmd_available>>
    ELSE /\ app_data' = [app_data EXCEPT ![r] =
                SetItem(SetItem(@, "munge_key", munge_key),
                        "slurmctld_host", hostname)]
         /\ last' = Ran("_on_relation_created", event, FALSE, <<>>,
                        << <<"munge_key", munge_key>>,
                           <<"slurmctld_host", hostname>> >>)
         /\ UNCHANGED <<deferred, slurmd_available>>

\* Variant of _on_relation_created that sends host and port before it checks
\* that slurm is installed and slurmdbd is ready.
OnRelationCreated_CoordinatesFirst(event) ==
    LET r == event.relation
        early == SetItem(SetItem(app_data[r], "slurmctld_host", hostname),
                         "slurmctld_port", port)
    IN
    IF ~installed \/ ~Truthy(slurmdbd_info)
    THEN /\ app_data' = [app_data EXCEPT ![r] = early]
         /\ deferred' = Append(deferred, event)
         /\ last' = Ran("_on_relation_created", event, TRUE, <<>>,
                        << <<"slurmctld_host", hostname>>,
                           <<"slurmctld_port", port>> >>)
         /\ UNCHANGED slurmd_available
    ELSE /\ app_data' = [app_data EXCEPT ![r] =
                            SetItem(early, "munge_key", munge_key)]
         /\ last' = Ran("_on_relation_created", event, FALSE, <<>>,
                        << <<"slurmctld_host", hostname>>,
                           <<"slurmctld_port", port>>,
                           <<"munge_key", munge_key>> >>)
         /\ UNCHANGED <<deferred, slurmd_available>>

\* Variant of _on_relation_created with the slurmdbd_info test inverted.
OnRelationCreated_InvertedSlurmdbdCheck(event) ==
    LET r == event.relation IN
    IF ~installed \/ Truthy(slurmdbd_info)
    THEN /\ deferred' = Append(deferred, event)
         /\ last' = Ran("_on_relation_created", event, TRUE, <<>>, <<>>)
         /\ UNCHANGED <<app_data, slurmd_available>>
    ELSE /\ app_data' = [app_data EXCEPT ![r] =
                SetItem(SetItem(SetItem(@, "munge_key", munge_key),
                                "slurmctld_host", hostname),
                        "slurmctld_port", port)]
         /\ last' = Ran("_on_relation_created", event, FALSE, <<>>,
                        << <<"munge_key", munge_key>>,
                           <<"slurmctld_host", hostname>>,
                           <<"slurmctld_port", port>> >>)
         /\ UNCHANGED <<deferred, slurmd_available>>

\* Variant of _on_relation_created that marks slurmd available once it has
\* sent its data.
OnRelationCreated_MarksAvailable(event) ==
    LET r == event.relation IN
    IF ~installed \/ ~Truthy(slurmdbd_info)
    THEN /\ deferred' = Append(deferred, event)
         /\ last' = Ran("_on_relation_created", event, TRUE, <<>>, <<>>)
         /\ UNCHANGED <<app_data, slurmd_available>>
    ELSE /\ app_data' = [app_data EXCEPT ![r] =
                SetItem(SetItem(SetItem(@, "munge_key", munge_key),
                                "slurmctld_host", hostname),
                        "slurmctld_port", port)]
         /\ slurmd_available' = TRUE
         /\ last' = Ran("_on_relation_created", event, FALSE, <<>>,
                        << <<"munge_key", munge_key>>,
                           <<"slurmctld_host", hostname>>,
                           <<"slurmctld_port", port>> >>)
         /\ UNCHANGED deferred

(***************************************************************************)
(* Slurmd._on_relation_created                                             *)
(***************************************************************************)
OnRelationCreated(event) ==
    LET r == event.relation IN
    IF ~installed
    THEN /\ deferred' = Append(deferred, event)
         /\ last' = Ran("_on_relation_created", event, TRUE, <<>>, <<>>)
         /\ UNCHANGED <<app_data, slurmd_available>>
    ELSE IF ~Truthy(slurmdbd_info)
    THEN /\ deferred' = Append(deferred, event)
         /\ last' = Ran("_on_relation_created", event, TRUE, <<>>, <<>>)
         /\ UNCHANGED <<app_data, slurmd_available>>
    ELSE /\ app_data' = [app_data EXCEPT ![r] =
                SetItem(SetItem(SetItem(@, "munge_key", munge_key),
                                "slurmctld_host", hostname),
                        "slurmctld_port", port)]
         /\ last' = Ran("_on_relation_created", event, FALSE, <<>>,
                        << <<"munge_key", munge_key>>,
                           <<"slurmctld_host", hostname>>,
                           <<"slurmctld_port", port>> >>)
         /\ UNCHANGED <<deferred, slurmd_available>>

\* Variant of _on_relation_changed that marks slurmd unavailable when
\* partition_info is missing.
OnRelationChanged_ClearsFlag(event) ==
    LET r == event.relation IN
    IF Truthy(Get(peer_data[r], "partition_info"))
    THEN /\ slurmd_available' = TRUE
         /\ last' = Ran("_on_relation_changed", event, FALSE,
                        <<"slurmd_available">>, <<>>)
         /\ UNCHANGED <<app_data, deferred>>
    ELSE /\ slurmd_available' = FALSE
         /\ deferred' = Append(deferred, event)
         /\ last' = Ran("_on_relation_changed", event, TRUE, <<>>, <<>>)
         /\ UNCHANGED app_data

\* Variant of _on_relation_changed that emits slurmd_available only when the
\* flag was not set yet.
OnRelationChanged_OnlyOnce(event) ==
    LET r == event.relation IN
    IF Truthy(Get(peer_data[r], "partition_info"))
    THEN /\ slurmd_available' = TRUE
         /\ last' = Ran("_on_relation_changed", event, FALSE,
                        IF slurmd_available THEN <<>>
                        ELSE <<"slurmd_available">>, <<>>)
         /\ UNCHANGED <<app_data, deferred>>
    ELSE /\ deferred' = Append(deferred, event)
         /\ last' = Ran("_on_relation_changed", event, TRUE, <<>>, <<>>)
         /\ UNCHANGED <<app_data, slurmd_available>>

\* Variant of _on_relation_changed that sends host and port again when the
\* peer's data is there.
OnRelationChanged_ResendsCoordinates(event) ==
    LET r == event.relation IN
    IF Truthy(Get(peer_data[r], "partition_info"))
    THEN /\ app_data' = [app_data EXCEPT ![r] =
                SetItem(SetItem(@, "slurmctld_host", hostname),
                        "slurmctld_port", port)]
         /\ slurmd_available' = TRUE
         /\ last' = Ran("_on_relation_changed", event, FALSE,
                        <<"slurmd_available">>,
                        << <<"slurmctld_host", hostname>>,
                           <<"slurmctld_port", port>> >>)
         /\ UNCHANGED deferred
    ELSE /\ deferred' = Append(deferred, event)
         /\ last' = Ran("_on_relation_changed", event, TRUE, <<>>, <<>>)
         /\ UNCHANGED <<app_data, slurmd_available>>

(***************************************************************************)
(* Slurmd._on_relation_changed (relation_changed and relation_departed)    *)
(***************************************************************************)
OnRelationChanged(event) ==
    LET r == event.relation IN
    IF Truthy(Get(peer_data[r], "partition_info"))
    THEN /\ slurmd_available' = TRUE
         /\ last' = Ran("_on_relation_changed", event, FALSE,
                        <<"slurmd_available">>, <<>>)
         /\ UNCHANGED <<app_data, deferred>>
    ELSE /\ deferred' = Append(deferred, event)
         /\ last' = Ran("_on_relation_changed", event, TRUE, <<>>, <<>>)
         /\ UNCHANGED <<app_data, slurmd_available>>

\* Variant of _on_relation_broken that does everything under the leader check.
OnRelationBroken_LeaderOnly(event) ==
    LET r == event.relation IN
    IF is_leader
    THEN /\ app_data' = [app_data EXCEPT ![r] = SetItem(@, "munge_key", "")]
         /\ slurmd_available' = FALSE
         /\ last' = Ran("_on_relation_broken", event, FALSE,
                        <<"slurmd_unavailable">>, << <<"munge_key", "">> >>)
         /\ UNCHANGED deferred
    ELSE /\ last' = Ran("_on_relation_broken", event, FALSE, <<>>, <<>>)
         /\ UNCHANGED <<app_data, slurmd_available, deferred>>

\* Variant of _on_relation_broken without the leader check.
OnRelationBroken_AlwaysClears(event) ==
    LET r == event.relation IN
    /\ app_data' = [app_data EXCEPT ![r] = SetItem(@, "munge_key", "")]
    /\ slurmd_available' = FALSE
    /\ last' = Ran("_on_relation_broken", event, FALSE,
                   <<"slurmd_unavailable">>, << <<"munge_key", "">> >>)
    /\ UNCHANGED deferred

\* Variant of _on_relation_broken that flips the flag instead of clearing it.
OnRelationBroken_TogglesFlag(event) ==
    LET r == event.relation IN
    /\ IF is_leader
       THEN app_data' = [app_data EXCEPT ![r] = SetItem(@, "munge_key", "")]
       ELSE UNCHANGED app_data
    /\ slurmd_available' = ~slurmd_available
    /\ last' = Ran("_on_relation_broken", event, FALSE,
                   <<"slurmd_unavailable">>,
                   IF is_leader THEN << <<"munge_key", "">> >> ELSE <<>>)
    /\ UNCHANGED deferred

\* Variant of _on_relation_broken that clears the munge key of every relation.
OnRelationBroken_ClearsAllRelations(event) ==
    /\ IF is_leader
       THEN app_data' = [q \in Relations |->
                            SetItem(app_data[q], "munge_key", "")]
       ELSE UNCHANGED app_data
    /\ slurmd_available' = FALSE
    /\ last' = Ran("_on_relation_broken", event, FALSE,
                   <<"slurmd_unavailable">>,
                   IF is_leader THEN << <<"munge_key", "">> >> ELSE <<>>)
    /\ UNCHANGED deferred

(***************************************************************************)
(* Slurmd._on_relation_broken                                              *)
(***************************************************************************)
OnRelationBroken(event) ==
    LET r == event.relation IN
    /\ IF is_leader
       THEN app_data' = [app_data EXCEPT ![r] = SetItem(@, "munge_key", "")]
       ELSE UNCHANGED app_data
    /\ slurmd_available' = FALSE
    /\ last' = Ran("_on_relation_broken", event, FALSE,
                   <<"slurmd_unavailable">>,
                   IF is_leader THEN << <<"munge_key", "">> >> ELSE <<>>)
    /\ UNCHANGED deferred

(***************************************************************************)
(* Slurmd.__init__: which handler observes which event                     *)
(***************************************************************************)
Observe(event) ==
    CASE event.kind = "relation_created" -> OnRelationCreated(event)
      [] event.kind = "relation_changed" -> OnRelationChanged(event)
      [] event.kind = "relation_departed" -> OnRelationChanged(event)
      [] event.kind = "relation_broken" -> OnRelationBroken(event)

\* The running hook emits the next event it holds.
Emit ==
    /\ pending /= <<>>
    /\ Observe(Head(pending))
    /\ pending' = Tail(pending)
    /\ UNCHANGED <<installed, slurmdbd_info, munge_key, is_leader, phase,
                   peer_data>>
    /\ UNCHANGED aggVars

(***************************************************************************)
(* The host: a hook re-emits the deferred events in order, then its own    *)
(***************************************************************************)
Dispatch(event) ==
    /\ pending = <<>>
    /\ Len(deferred) < MaxDeferred
    /\ pending' = Append(deferred, event)
    /\ deferred' = <<>>
    /\ last' = NoHandler

HostRelationCreated(r) ==
    /\ phase[r] = "new"
    /\ phase' = [phase EXCEPT ![r] = "joined"]
    /\ Dispatch(Event("relation_created", r))
    /\ UNCHANGED <<installed, slurmdbd_info, munge_key, is_leader,
                   slurmd_available, app_data, peer_data>>
    /\ UNCHANGED aggVars

HostRelationChanged(r) ==
    /\ phase[r] = "joined"
    /\ \E kind \in {"relation_changed", "relation_departed"} :
            Dispatch(Event(kind, r))
    /\ UNCHANGED <<installed, slurmdbd_info, munge_key, is_leader,
                   slurmd_available, app_data, peer_data, phase>>
    /\ UNCHANGED aggVars

HostRelationBroken(r) ==
    /\ phase[r] = "joined"
    /\ phase' = [phase EXCEPT ![r] = "broken"]
    /\ Dispatch(Event("relation_broken", r))
    /\ UNCHANGED <<installed, slurmdbd_info, munge_key, is_leader,
                   slurmd_available, app_data, peer_data>>
    /\ UNCHANGED aggVars

\* A hook this object does not observe: only the deferred events run.
HostOtherHook ==
    /\ pending = <<>>
    /\ deferred /= <<>>
    /\ pending' = deferred
    /\ deferred' = <<>>
    /\ last' = NoHandler
    /\ UNCHANGED <<installed, slurmdbd_info, munge_key, is_leader,
                   slurmd_available, app_data, peer_data, phase>>
    /\ UNCHANGED aggVars

(***************************************************************************)
(* The environment, between hooks                                          *)
(***************************************************************************)
Idle == pending = <<>>

Install ==
    /\ Idle
    /\ ~installed
    /\ installed' = TRUE
    /\ \E k \in MungeKeys : munge_key' = k
    /\ last' = NoHandler
    /\ UNCHANGED <<slurmdbd_info, is_leader, slurmd_available, app_data,
                   peer_data, phase, deferred, pending>>
    /\ UNCHANGED aggVars

SlurmdbdChanges ==
    /\ Idle
    /\ slurmdbd_info' = IF Truthy(slurmdbd_info) THEN "" ELSE "slurmdbd"
    /\ last' = NoHandler
    /\ UNCHANGED <<installed, munge_key, is_leader, slurmd_available,
                   app_data, peer_data, phase, deferred, pending>>
    /\ UNCHANGED aggVars

LeaderChanges ==
    /\ Idle
    /\ is_leader' = ~is_leader
    /\ last' = NoHandler
    /\ UNCHANGED <<installed, slurmdbd_info, munge_key, slurmd_available,
                   app_data, peer_data, phase, deferred, pending>>
    /\ UNCHANGED aggVars

PeerSetsPartitionInfo(r, v) ==
    /\ Idle
    /\ phase[r] = "joined"
    /\ Get(peer_data[r], "partition_info") /= v
    /\ peer_data' = [peer_data EXCEPT ![r] = SetItem(@, "partition_info", v)]
    /\ last' = NoHandler
    /\ UNCHANGED <<installed, slurmdbd_info, munge_key, is_leader,
                   slurmd_available, app_data, phase, deferred, pending>>
    /\ UNCHANGED aggVars

Init ==
    /\ installed = FALSE
    /\ slurmdbd_info = ""
    /\ munge_key = None
    /\ is_leader \in BOOLEAN
    /\ slurmd_available = FALSE
    /\ app_data = [r \in Relations |-> EmptyDict]
    /\ peer_data = [r \in Relations |-> EmptyDict]
    /\ unit_data = [r \in Relations |-> [u \in Units(r) |-> EmptyDict]]
    /\ phase = [r \in Relations |-> "new"]
    /\ deferred = <<>>
    /\ pending = <<>>
    /\ last = NoHandler
    /\ partitions = <<>>
    /\ result = [status |-> "none", value |-> <<>>]

Next ==
    \/ Emit
    \/ \E r \in Relations : HostRelationCreated(r)
    \/ \E r \in Relations : HostRelationChanged(r)
    \/ \E r \in Relations : HostRelationBroken(r)
    \/ HostOtherHook
    \/ Install
    \/ SlurmdbdChanges
    \/ LeaderChanges
    \/ \E r \in Relations : \E v \in {""} \cup PartitionTexts :
            PeerSetsPartitionInfo(r, v)

Spec == Init /\ [][Next]_vars

(***************************************************************************)
(* list and dict primitives used by ensure_unique_partitions               *)
(***************************************************************************)
\* Variant of list.remove that removes nothing.
ListRemove_Nothing(s, x) == s

\* list.remove(x): drops the first element equal to x
RECURSIVE ListRemove(_, _)
ListRemove(s, x) ==
    IF s = <<>> THEN <<>>
    ELSE IF Head(s) = x THEN Tail(s)
    ELSE <<Head(s)>> \o ListRemove(Tail(s), x)

\* Variant of d[k] = v that keeps the value of a key that is already set.
DictPut_KeepFirst(d, k, v) ==
    IF \E i \in 1..Len(d) : d[i][1] = k THEN d ELSE Append(d, <<k, v>>)

\* An insertion-ordered dict as a sequence of <<key, value>>; d[k] = v keeps
\* the position of a key that is already set.
DictPut(d, k, v) ==
    IF \E i \in 1..Len(d) : d[i][1] = k
    THEN [i \in 1..Len(d) |-> IF d[i][1] = k THEN <<k, v>> ELSE d[i]]
    ELSE Append(d, <<k, v>>)

\* {node["node_name"]: node for node in inventory}
RECURSIVE NodeDict(_)
NodeDict(inventory) ==
    IF inventory = <<>> THEN <<>>
    ELSE LET n == inventory[Len(inventory)]
         IN DictPut(NodeDict(SubSeq(inventory, 1, Len(inventory) - 1)),
                    n.node_name, n)

\* list(d.values())
DictValues(d) == [i \in 1..Len(d) |-> d[i][2]]

(***************************************************************************)
(* ensure_unique_partitions                                                *)
(***************************************************************************)
\* Variant that keeps the inventory as it is.
UniqueInventory_Keep(inventory) == inventory

UniqueInventory(inventory) == DictValues(NodeDict(inventory))

\* Variant of the loop that also drops the nodes an earlier partition of the
\* list already holds.
RECURSIVE EnsureLoop_AcrossPartitions(_, _, _)
EnsureLoop_AcrossPartitions(parts, partitions_tmp, i) ==
    IF i > Len(partitions_tmp) THEN parts
    ELSE LET partition == partitions_tmp[i]
             seen == UNION {{partitions_tmp[j].inventory[k].node_name :
                                k \in 1..Len(partitions_tmp[j].inventory)} :
                            j \in 1..(i - 1)}
             fresh(n) == n.node_name \notin seen
             partition_tmp == SetItem(partition, "inventory",
                    SelectSeq(UniqueInventory(partition.inventory), fresh))
         IN EnsureLoop_AcrossPartitions(
                Append(ListRemove(parts, partition), partition_tmp),
                partitions_tmp, i + 1)

\* the loop body, for the i-th element of partitions_tmp
RECURSIVE EnsureLoop(_, _, _)
EnsureLoop(parts, partitions_tmp, i) ==
    IF i > Len(partitions_tmp) THEN parts
    ELSE LET partition == partitions_tmp[i]
             partition_tmp == SetItem(partition, "inventory",
                                      UniqueInventory(partition.inventory))
         IN EnsureLoop(Append(ListRemove(parts, partition), partition_tmp),
                       partitions_tmp, i + 1)

ensure_unique_partitions(parts) == EnsureLoop(parts, parts, 1)

(***************************************************************************)
(* Slurmd.get_slurmd_info                                                  *)
(***************************************************************************)
\* self.framework.model.relations["slurmd"]: the established relations
RECURSIVE SortedSeq(_)
SortedSeq(S) ==
    IF S = {} THEN <<>>
    ELSE LET m == CHOOSE x \in S : \A y \in S : x <= y
         IN <<m>> \o SortedSeq(S \ {m})

ModelRelations == SortedSeq({r \in Relations : phase[r] = "joined"})

\* the orders in which "for unit in units" can visit the set relation.units
UnitOrders(r) ==
    {o \in [1..Cardinality(Units(r)) -> Units(r)] :
        \A i, j \in 1..Cardinality(Units(r)) : i /= j => o[i] /= o[j]}

\* the inner loop: the inventories of the units that published one
RECURSIVE UnitInventories(_, _)
UnitInventories(r, order) ==
    IF order = <<>> THEN <<>>
    ELSE LET inv == Get(unit_data[r][Head(order)], "inventory")
             rest == UnitInventories(r, Tail(order))
         IN IF Truthy(inv) THEN <<json_loads(inv)>> \o rest ELSE rest

\* relation.data[app]["partition_info"] is set and json.loads accepts it
PartitionInfoLoads(r) ==
    /\ "partition_info" \in DOMAIN peer_data[r]
    /\ Parses(peer_data[r]["partition_info"])

\* the outer loop over the relations rels; orders[r] is the unit order
RECURSIVE BuildPartitions(_, _)
BuildPartitions(rels, orders) ==
    IF rels = <<>> THEN <<>>
    ELSE LET r == Head(rels)
             partition_info == json_loads(peer_data[r]["partition_info"])
         IN <<SetItem(partition_info, "inventory",
                      UnitInventories(r, orders[r]))>>
            \o BuildPartitions(Tail(rels), orders)

Returned(value) == [status |-> "returned", value |-> value]
Raised == [status |-> "raised", value |-> <<>>]
NotCalled == [status |-> "none", value |-> <<>>]

GetSlurmdInfo ==
    /\ \E o1 \in UnitOrders(1) : \E o2 \in UnitOrders(2) :
        LET orders == <<o1, o2>> IN
        IF \A i \in 1..Len(ModelRelations) : PartitionInfoLoads(ModelRelations[i])
        THEN /\ partitions' = BuildPartitions(ModelRelations, orders)
             /\ result' = Returned(ensure_unique_partitions(partitions'))
        ELSE /\ partitions' = <<>>
             /\ result' = Raised
    /\ UNCHANGED <<unit_data, peer_data>>
    /\ UNCHANGED handshakeVars

\* the peer units whose bag holds an inventory
Published ==
    {ru \in UNION {{<<r, u>> : u \in Units(r)} : r \in Relations} :
        "inventory" \in DOMAIN unit_data[ru[1]][ru[2]]}

UnitSetsInventory(r, u, v) ==
    /\ phase[r] = "joined"
    /\ <<r, u>> \in Published \/ Cardinality(Published) < MaxPublished
    /\ Get(unit_data[r][u], "inventory") /= v
    /\ unit_data' = [unit_data EXCEPT ![r][u] = SetItem(@, "inventory", v)]
    /\ partitions' = <<>>
    /\ result' = NotCalled
    /\ UNCHANGED peer_data
    /\ UNCHANGED handshakeVars

InitAgg ==
    /\ installed = FALSE
    /\ slurmdbd_info = ""
    /\ munge_key = None
    /\ is_leader = TRUE
    /\ slurmd_available = FALSE
    /\ app_data = [r \in Relations |-> EmptyDict]
    /\ phase \in [Relations -> {"new", "joined"}]
    /\ peer_data \in [Relations -> {EmptyDict} \cup
            {SetItem(EmptyDict, "partition_info", t) : t \in PartitionTexts}]
    /\ \A r \in Relations : phase[r] = "new" => peer_data[r] = EmptyDict
    /\ unit_data = [r \in Relations |-> [u \in Units(r) |-> EmptyDict]]
    /\ deferred = <<>>
    /\ pending = <<>>
    /\ last = NoHandler
    /\ partitions = <<>>
    /\ result = NotCalled

NextAgg ==
    \/ GetSlurmdInfo
    \/ \E r \in Relations : \E u \in Units(r) : \E v \in {""} \cup InventoryTexts :
            UnitSetsInventory(r, u, v)

SpecAgg == InitAgg /\ [][NextAgg]_vars


(***************************************************************************)
(* Properties of the relation handlers (specification Spec)                *)
(***************************************************************************)
\* this step is the handler run for the head of pending, an event of `kinds`
Handling(kinds) ==
    /\ pending /= <<>>
    /\ Head(pending).kind \in kinds
    /\ pending' = Tail(pending)

ControllerKeys == {"munge_key", "slurmctld_host", "slurmctld_port"}

\* the keys a handler run assigned, in order
WrittenKeys(run) == [i \in 1..Len(run.written) |-> run.written[i][1]]

\* key k of bag d is untouched between this state and the next
SameKey(d, e, k) == (k \in DOMAIN d <=> k \in DOMAIN e) /\ Get(d, k) = Get(e, k)

\* C1: every assignment to munge_key made by a handler run is made by a unit
\* that holds leadership at that moment; a run on a non-leader assigns no
\* munge_key.
C1_MungeKeyWrittenOnlyByLeader ==
    \A i \in 1..Len(last.written) :
        last.written[i][1] = "munge_key" => last.leader

\* C2: relation_created delivered while slurm is not installed, or while
\* slurmdbd_info is not ready, writes no key of any relation bag, emits
\* nothing, leaves slurmd_available as it was and defers the event.
C2_CreatedNotReadyDefers ==
    [][ (Handling({"relation_created"})
            /\ (~installed \/ ~Truthy(slurmdbd_info)))
        => /\ app_data' = app_data
           /\ peer_data' = peer_data
           /\ unit_data' = unit_data
           /\ last'.written = <<>>
           /\ last'.emitted = <<>>
           /\ slurmd_available' = slurmd_available
           /\ last'.deferred
           /\ deferred' = Append(deferred, Head(pending)) ]_vars

\* C2 witness: a relation_created run deferred with slurm installed and
\* slurmdbd_info not ready.
C2_Witness ==
    /\ last.handler = "_on_relation_created"
    /\ last.deferred
    /\ installed
    /\ ~Truthy(slurmdbd_info)
    /\ app_data[last.relation] = EmptyDict

\* C3: relation_created delivered while both preconditions hold assigns
\* exactly munge_key, slurmctld_host and slurmctld_port of that relation's
\* application bag, to the charm's current values, and nothing else; it does
\* not defer, emits nothing and leaves slurmd_available as it was.
C3_CreatedReadyWritesThreeKeys ==
    [][ (Handling({"relation_created"}) /\ installed /\ Truthy(slurmdbd_info))
        => LET r == Head(pending).relation IN
           /\ WrittenKeys(last') =
                <<"munge_key", "slurmctld_host", "slurmctld_port">>
           /\ DOMAIN app_data'[r] = (DOMAIN app_data[r]) \cup ControllerKeys
           /\ app_data'[r]["munge_key"] = munge_key
           /\ app_data'[r]["slurmctld_host"] = hostname
           /\ app_data'[r]["slurmctld_port"] = port
           /\ \A k \in (DOMAIN app_data'[r]) \ ControllerKeys :
                    SameKey(app_data[r], app_data'[r], k)
           /\ \A q \in Relations \ {r} : app_data'[q] = app_data[q]
           /\ peer_data' = peer_data
           /\ unit_data' = unit_data
           /\ ~last'.deferred
           /\ deferred' = deferred
           /\ last'.emitted = <<>>
           /\ slurmd_available' = slurmd_available ]_vars

\* C3 witness: a relation_created run that completed and left the three keys
\* with the charm's values in the bag.
C3_Witness ==
    /\ last.handler = "_on_relation_created"
    /\ ~last.deferred
    /\ DOMAIN app_data[last.relation] = ControllerKeys
    /\ app_data[last.relation]["munge_key"] = munge_key
    /\ munge_key \in MungeKeys

\* C4: relation_broken, leader or not, sets slurmd_available to False, emits
\* exactly one slurmd_unavailable and is not deferred.
C4_BrokenAlwaysUnavailable ==
    [][ Handling({"relation_broken"})
        => /\ slurmd_available' = FALSE
           /\ last'.emitted = <<"slurmd_unavailable">>
           /\ ~last'.deferred
           /\ deferred' = deferred ]_vars

\* C4 witness: a relation_broken run on a non-leader unit.
C4_Witness ==
    /\ last.handler = "_on_relation_broken"
    /\ ~last.leader
    /\ last.emitted = <<"slurmd_unavailable">>
    /\ ~slurmd_available

\* C5: after relation_broken munge_key is "" if the unit is leader and is
\* what it was (set or not) if it is not; slurmctld_host and slurmctld_port
\* are what they were in both cases.
C5_BrokenClearsSecretIffLeader ==
    [][ Handling({"relation_broken"})
        => LET r == Head(pending).relation IN
           /\ is_leader => /\ "munge_key" \in DOMAIN app_data'[r]
                           /\ app_data'[r]["munge_key"] = ""
           /\ ~is_leader => SameKey(app_data[r], app_data'[r], "munge_key")
           /\ SameKey(app_data[r], app_data'[r], "slurmctld_host")
           /\ SameKey(app_data[r], app_data'[r], "slurmctld_port") ]_vars

\* C5 witness: a relation_broken run on the leader of a relation that had
\* been given the three keys.
C5_Witness ==
    /\ last.handler = "_on_relation_broken"
    /\ last.leader
    /\ DOMAIN app_data[last.relation] = ControllerKeys
    /\ app_data[last.relation]["munge_key"] = ""
    /\ app_data[last.relation]["slurmctld_host"] = hostname

\* C6: relation_changed or relation_departed with partition_info not set or
\* empty defers, emits no slurmd_available and leaves the flag as it was.
C6_ChangedWithoutPartitionInfoDefers ==
    [][ (Handling({"relation_changed", "relation_departed"})
            /\ ~Truthy(Get(peer_data[Head(pending).relation], "partition_info")))
        => /\ last'.deferred
           /\ deferred' = Append(deferred, Head(pending))
           /\ last'.emitted = <<>>
           /\ slurmd_available' = slurmd_available ]_vars

\* C6 witness: a deferred run for a peer that withdrew partition_info while
\* the flag was True.
C6_Witness ==
    /\ last.handler = "_on_relation_changed"
    /\ last.deferred
    /\ Get(peer_data[last.relation], "partition_info") = ""
    /\ slurmd_available

\* C7: every relation_changed or relation_departed run with partition_info
\* set and non-empty sets slurmd_available to True and emits exactly one
\* slurmd_available without deferring, whatever the flag and the bag were.
C7_ChangedWithPartitionInfoAvailable ==
    [][ (Handling({"relation_changed", "relation_departed"})
            /\ Truthy(Get(peer_data[Head(pending).relation], "partition_info")))
        => /\ slurmd_available' = TRUE
           /\ last'.emitted = <<"slurmd_available">>
           /\ ~last'.deferred
           /\ deferred' = deferred ]_vars

\* C7 witness: a completed run on a relation whose munge_key was never
\* written.
C7_Witness ==
    /\ last.handler = "_on_relation_changed"
    /\ ~last.deferred
    /\ last.emitted = <<"slurmd_available">>
    /\ "munge_key" \notin DOMAIN app_data[last.relation]

(***************************************************************************)
(* Properties of the aggregation (specification SpecAgg)                   *)
(***************************************************************************)
\* the node names the units of relation r published
PublishedNames(r) ==
    {json_loads(unit_data[r][u]["inventory"]).node_name :
        u \in {x \in Units(r) : Truthy(Get(unit_data[r][x], "inventory"))}}

\* the positions of inventory that hold node name n
Occurrences(inventory, n) ==
    {j \in 1..Len(inventory) : inventory[j].node_name = n}

\* C8: in every partition get_slurmd_info returns, each node_name published
\* on that partition's relation occurs exactly once in the inventory.
C8_EachNodeNameOnce ==
    result.status = "returned" =>
        \A i \in 1..Len(result.value) :
            \A n \in PublishedNames(ModelRelations[i]) :
                Cardinality(Occurrences(result.value[i].inventory, n)) = 1

\* C8 witness: a returned partition whose relation had several units report
\* one node_name.
C8_Witness ==
    /\ result.status = "returned"
    /\ \E i \in 1..Len(result.value) : \E n \in PublishedNames(ModelRelations[i]) :
          /\ Cardinality(Occurrences(partitions[i].inventory, n)) > 1
          /\ Cardinality(Occurrences(result.value[i].inventory, n)) = 1

\* C9: for a node_name with several entries in a partition's input
\* inventory, the one entry kept is the last of them in input order.
C9_LastEntryWins ==
    result.status = "returned" =>
        \A i \in 1..Len(partitions) :
            LET inventory == partitions[i].inventory
                kept == result.value[i].inventory
            IN \A j \in 1..Len(inventory) :
                 LET n == inventory[j].node_name
                     lastAt == CHOOSE k \in Occurrences(inventory, n) :
                                 \A m \in Occurrences(inventory, n) : m <= k
                 IN /\ Occurrences(kept, n) /= {}
                    /\ \A m \in Occurrences(kept, n) : kept[m] = inventory[lastAt]

\* C9 witness: a node_name reported twice with different contents, the
\* later of which is the one returned.
C9_Witness ==
    /\ result.status = "returned"
    /\ \E i \in 1..Len(partitions) :
         \E j, k \in 1..Len(partitions[i].inventory) :
            /\ j < k
            /\ partitions[i].inventory[j].node_name
                    = partitions[i].inventory[k].node_name
            /\ partitions[i].inventory[j] /= partitions[i].inventory[k]
            /\ \E m \in 1..Len(result.value[i].inventory) :
                    result.value[i].inventory[m] = partitions[i].inventory[k]

\* C10: ensure_unique_partitions applied to its own output returns that
\* output: same partitions in the same order, same fields, same inventories
\* in the same order.
C10_DedupIdempotent ==
    result.status = "returned" =>
        /\ result.value = ensure_unique_partitions(partitions)
        /\ ensure_unique_partitions(result.value) = result.value

\* C10 witness: an output that differs from its input and keeps two node
\* names in one inventory.
C10_Witness ==
    /\ result.status = "returned"
    /\ result.value /= partitions
    /\ \E i \in 1..Len(result.value) : Len(result.value[i].inventory) >= 2

\* C11: get_slurmd_info returns a partition list for every set of joined
\* relations, also when a peer application has published no partition_info
\* and units have published no inventory; it never fails.
C11_GetSlurmdInfoAlwaysReturns ==
    result.status /= "raised"

\* the value returned has one partition per joined relation, in the order
\* the relations are enumerated: the i-th carries the i-th relation's
\* partition_info fields, and an empty inventory when no unit of that
\* relation published a non-empty one
OnePartitionPerRelation ==
    /\ Len(result.value) = Len(ModelRelations)
    /\ \A i \in 1..Len(ModelRelations) :
         LET r == ModelRelations[i]
             info == json_loads(peer_data[r]["partition_info"])
         IN /\ i <= Len(result.value)
            /\ \A k \in DOMAIN info : result.value[i][k] = info[k]
            /\ DOMAIN result.value[i] = (DOMAIN info) \cup {"inventory"}
            /\ PublishedNames(r) = {} => result.value[i].inventory = <<>>
            /\ {result.value[i].inventory[j].node_name :
                    j \in 1..Len(result.value[i].inventory)} = PublishedNames(r)

\* C12: every call of get_slurmd_info returns exactly one partition per
\* joined relation, in enumeration order (also for equal partition records),
\* with an empty inventory for a relation whose units published none.
C12_OnePartitionPerRelationInOrder ==
    result.status /= "none" =>
        /\ result.status = "returned"
        /\ OnePartitionPerRelation

\* the same, for the calls that return
C12_WhenReturned ==
    result.status = "returned" => OnePartitionPerRelation

(***************************************************************************)
(* Properties of sequences of handler runs (specification Spec)            *)
(***************************************************************************)
\* key k of relation r's application bag gets a value in this step: a
\* non-empty one it did not hold, or (host and port) any value while unset
Publishes(r, k) ==
    \/ k \notin DOMAIN app_data[r] /\ k \in DOMAIN app_data'[r]
         /\ (k = "munge_key" => Truthy(app_data'[r][k]))
    \/ k \in DOMAIN app_data'[r] /\ Truthy(app_data'[r][k])
         /\ Get(app_data[r], k) /= app_data'[r][k]

\* C13: munge_key, slurmctld_host and slurmctld_port of a relation become
\* present only in a relation_created run for that relation made while slurm
\* is installed and slurmdbd_info is ready; no delivery or redelivery
\* publishes any of them while a precondition is false.
C13_PublishedOnlyWhenReady ==
    [][ \A r \in Relations : \A k \in ControllerKeys :
            Publishes(r, k)
            => /\ Handling({"relation_created"})
               /\ Head(pending).relation = r
               /\ installed
               /\ Truthy(slurmdbd_info) ]_vars

\* C13 witness: a redelivered relation_created (a later event is still to be
\* emitted by the same hook) that completed and published the three keys.
C13_Witness ==
    /\ last.handler = "_on_relation_created"
    /\ ~last.deferred
    /\ pending /= <<>>
    /\ installed /\ Truthy(slurmdbd_info)
    /\ DOMAIN app_data[last.relation] = ControllerKeys
    /\ Truthy(app_data[last.relation]["munge_key"])

\* relation_broken has been handled for relation r
BrokenProcessed(r) ==
    /\ phase[r] = "broken"
    /\ \A i \in 1..Len(pending) :
            ~(pending[i].kind = "relation_broken" /\ pending[i].relation = r)

\* C14: once relation_broken has been handled for a relation and its
\* munge_key is empty, no later step, a redelivered relation_created
\* included, makes that munge_key non-empty again.
C14_ClearedStaysCleared ==
    [][ \A r \in Relations :
            (BrokenProcessed(r) /\ Get(app_data[r], "munge_key") = "")
            => ~Truthy(Get(app_data'[r], "munge_key")) ]_vars

(***************************************************************************)
(* Redelivery of deferred events (specification SpecLive)                  *)
(***************************************************************************)
\* The running hook emits every event it holds, and while events are
\* deferred a later hook runs and re-emits them.
SpecLive == Init /\ [][Next]_vars /\ WF_vars(Emit) /\ WF_vars(HostOtherHook)

IsDeferred(kinds, r) ==
    \E i \in 1..Len(deferred) :
        deferred[i].kind \in kinds /\ deferred[i].relation = r

Ready == installed /\ Truthy(slurmdbd_info)

Provisioned(r) ==
    /\ DOMAIN app_data[r] = ControllerKeys
    /\ Truthy(app_data[r]["munge_key"])

AvailableEmitted(r) ==
    /\ last.handler = "_on_relation_changed"
    /\ last.relation = r
    /\ last.emitted = <<"slurmd_available">>

\* C15: with deferred events re-emitted by later hooks, a deferred
\* relation_created leads to munge_key, slurmctld_host and slurmctld_port
\* being published once both preconditions hold for good, and a deferred
\* relation_changed / relation_departed leads to slurmd_available being
\* emitted once partition_info is present for good.
C15_DeferredEventuallyCompletes ==
    \A r \in Relations :
        /\ (<>[]Ready)
            => [](IsDeferred({"relation_created"}, r) => <>Provisioned(r))
        /\ (<>[]Truthy(Get(peer_data[r], "partition_info")))
            => [](IsDeferred({"relation_changed", "relation_departed"}, r)
                    => <>AvailableEmitted(r))

\* C15 witness: a re-emitted relation_changed (the hook's own event is still
\* to come) emits slurmd_available on a relation whose keys are published.
C15_Witness ==
    /\ pending /= <<>>
    /\ \E r \in Relations : AvailableEmitted(r) /\ Provisioned(r)

\* C16: relation_changed and relation_departed runs, completed or deferred,
\* assign no key of any relation bag; and slurmctld_host and slurmctld_port
\* of a relation are assigned or changed only by a relation_created run for
\* that relation that completes.
C16_ChangedWritesNothing ==
    [][ /\ Handling({"relation_changed", "relation_departed"})
            => /\ app_data' = app_data
               /\ peer_data' = peer_data
               /\ unit_data' = unit_data
               /\ last'.written = <<>>
        /\ \A r \in Relations : \A k \in {"slurmctld_host", "slurmctld_port"} :
             \/ /\ SameKey(app_data[r], app_data'[r], k)
                /\ (Handling({"relation_created", "relation_changed",
                              "relation_departed", "relation_broken"})
                        /\ Head(pending).relation = r
                        /\ \E i \in 1..Len(last'.written) :
                                last'.written[i][1] = k)
                    => Head(pending).kind = "relation_created"
             \/ /\ Handling({"relation_created"})
                /\ Head(pending).relation = r
                /\ ~last'.deferred ]_vars

\* C16 witness: a relation_departed run that completed on a relation that
\* holds the three keys.
C16_Witness ==
    /\ last.handler = "_on_relation_changed"
    /\ last.kind = "relation_departed"
    /\ ~last.deferred
    /\ last.written = <<>>
    /\ DOMAIN app_data[last.relation] = ControllerKeys

(***************************************************************************)
(* At-least-once delivery (specification SpecRerun)                        *)
(***************************************************************************)
\* The host delivers again the event whose handler just completed, before
\* anything else happens.
HostRedelivers ==
    /\ Idle
    /\ deferred = <<>>
    /\ last.handler /= "none"
    /\ ~last.deferred
    /\ pending' = <<Event(last.kind, last.relation)>>
    /\ UNCHANGED <<installed, slurmdbd_info, munge_key, is_leader,
                   slurmd_available, app_data, peer_data, phase, deferred,
                   last>>
    /\ UNCHANGED aggVars

NextRerun == Next \/ HostRedelivers

SpecRerun == Init /\ [][NextRerun]_vars

\* the event to handle is the one the last, completed, handler run handled
SecondDelivery ==
    /\ pending /= <<>>
    /\ last.handler /= "none"
    /\ ~last.deferred
    /\ Head(pending) = Event(last.kind, last.relation)

\* C17: a relation_created that completed, delivered again with the charm's
\* values unchanged, leaves every relation bag as the first delivery left
\* it; a relation_broken delivered again leaves the bags and
\* slurmd_available as the first delivery left them.
C17_RerunChangesNothing ==
    [][ (SecondDelivery /\ Handling({"relation_created", "relation_broken"}))
        => /\ app_data' = app_data
           /\ peer_data' = peer_data
           /\ Head(pending).kind = "relation_broken"
                => slurmd_available' = slurmd_available ]_vars

\* C17 witness: a completed relation_created that published the keys is
\* about to be handled a second time.
C17_Witness ==
    /\ SecondDelivery
    /\ last.handler = "_on_relation_created"
    /\ Provisioned(last.relation)

\* C18: slurmd_available is one flag for all relations and follows the most
\* recent completed run among relation_changed, relation_departed and
\* relation_broken on any relation: such a changed / departed run sets it
\* True, a relation_broken run sets it False, and no other step (a deferred
\* run, relation_created, the environment) changes it.
C18_FlagFollowsLastCompletedRun ==
    [][ /\ (Handling({"relation_changed", "relation_departed"})
                /\ ~last'.deferred)
            => slurmd_available' = TRUE
        /\ Handling({"relation_broken"}) => slurmd_available' = FALSE
        /\ ~(\/ Handling({"relation_changed", "relation_departed"})
                    /\ ~last'.deferred
             \/ Handling({"relation_broken"}))
            => slurmd_available' = slurmd_available ]_vars

\* C18 witness: relation_broken on one relation left the flag False while the
\* other relation is joined and publishes partition_info.
C18_Witness ==
    /\ last.handler = "_on_relation_broken"
    /\ ~slurmd_available
    /\ \E q \in Relations \ {last.relation} :
          /\ phase[q] = "joined"
          /\ Truthy(Get(peer_data[q], "partition_info"))

\* what a handler run for an event of `kind` makes of a relation's own bag,
\* given the charm's values and leadership
OwnBagAfter(kind, bag) ==
    IF kind = "relation_created" /\ installed /\ Truthy(slurmdbd_info)
    THEN SetItem(SetItem(SetItem(bag, "munge_key", munge_key),
                         "slurmctld_host", hostname), "slurmctld_port", port)
    ELSE IF kind = "relation_broken" /\ is_leader
    THEN SetItem(bag, "munge_key", "")
    ELSE bag

\* C19: a handler run for an event of relation A leaves every other
\* relation's bags as they are, and what it leaves in A's bag is determined
\* by A's bag alone (with the charm's values): whatever runs for other
\* relations are interleaved, a relation's bag is what its own runs made it.
C19_RelationsIsolated ==
    [][ Handling({"relation_created", "relation_changed",
                  "relation_departed", "relation_broken"})
        => LET a == Head(pending).relation IN
           /\ \A b \in Relations \ {a} :
                /\ app_data'[b] = app_data[b]
                /\ peer_data'[b] = peer_data[b]
                /\ unit_data'[b] = unit_data[b]
           /\ app_data'[a] = OwnBagAfter(Head(pending).kind, app_data[a])
           /\ peer_data'[a] = peer_data[a] ]_vars

\* C19 witness: the leader handled relation_broken for one relation, whose
\* munge_key is now empty, while the other relation keeps its three keys.
C19_Witness ==
    /\ last.handler = "_on_relation_broken"
    /\ last.leader
    /\ Get(app_data[last.relation], "munge_key") = ""
    /\ \E b \in Relations \ {last.relation} : Provisioned(b)

(***************************************************************************)
(* Further properties of the aggregation (specification SpecAgg)           *)
(***************************************************************************)
NodeNamesOf(inventory) ==
    {inventory[j].node_name : j \in 1..Len(inventory)}

EntriesOf(inventory) == {inventory[j] : j \in 1..Len(inventory)}

\* C20: ensure_unique_partitions returns as many partitions as it is given;
\* the one at each position has the input partition's fields other than
\* inventory, an inventory made of entries of the input inventory only, and
\* the same set of node names as the input inventory: a node name that two
\* partitions hold stays in both.
C20_DedupOnlyDropsDuplicates ==
    result.status = "returned" =>
        /\ Len(result.value) = Len(partitions)
        /\ \A i \in 1..Len(partitions) :
             /\ i <= Len(result.value)
             /\ DOMAIN result.value[i] = DOMAIN partitions[i]
             /\ \A k \in (DOMAIN partitions[i]) \ {"inventory"} :
                    result.value[i][k] = partitions[i][k]
             /\ EntriesOf(result.value[i].inventory)
                    \subseteq EntriesOf(partitions[i].inventory)
             /\ NodeNamesOf(result.value[i].inventory)
                    = NodeNamesOf(partitions[i].inventory)

\* C20 witness: one partition lost a duplicate, and a node name it holds is
\* also held by the other partition returned.
C20_Witness ==
    /\ result.status = "returned"
    /\ Len(result.value) = 2
    /\ Len(result.value[1].inventory) < Len(partitions[1].inventory)
    /\ NodeNamesOf(result.value[1].inventory)
         \cap NodeNamesOf(result.value[2].inventory) /= {}

====
